---- MODULE Spec2Model ----
(***************************************************************************)
(* ProvidenceCorpusReader: the Arpabet-to-IPA translation, the coalescing  *)
(* of a child's annotated phones, the part-of-speech tag of a word and     *)
(* the per-file word loop (_get_words) behind words_info, words_times and  *)
(* words_transcription.                                                    *)
(*                                                                         *)
(* A Python str is modelled as the sequence of its code points, each code  *)
(* point a one-element name: ASCII characters stand for themselves, and    *)
(* the IPA characters carry their Unicode names ("schwa" is U+0259,        *)
(* "length_mark" U+02D0, "syllabic_mark" U+0329, "rhotic_hook" U+02DE,     *)
(* "tesh" U+02A7, "dezh" U+02A4, "schwa_hook" U+025A, ...).  String        *)
(* concatenation is \o and string equality is sequence equality, so that   *)
(* two symbols merged into one unit equal the same text read as a single   *)
(* symbol, as in Python.                                                   *)
(***************************************************************************)
EXTENDS Integers, Sequences, FiniteSets, TLC

VARIABLES arpa, child, wpos, words

vars == <<arpa, child, wpos, words>>

(***************************************************************************)
(* Python helpers                                                          *)
(***************************************************************************)

\* A dict literal: the keys of the listed items, each bound to the value of
\* its LAST item (a repeated key keeps the later value, as 'OW' does).
DictLiteral(items) ==
  [k \in {items[n][1] : n \in DOMAIN items} |->
     LET last == CHOOSE n \in DOMAIN items :
                   /\ items[n][1] = k
                   /\ \A m \in DOMAIN items : items[m][1] = k => m <= n
     IN  items[last][2]]

Last(seq) == seq[Len(seq)]

\* list[-1] = value
SetLast(seq, value) == [seq EXCEPT ![Len(seq)] = value]

(***************************************************************************)
(* The static tables                                                       *)
(***************************************************************************)

cDigraphs ==
  DictLiteral(<<
    <<<<"small_cap_i">>, {<<"a">>, <<"alpha">>, <<"o">>, <<"e">>, <<"open_o">>}>>,
    <<<<"upsilon">>, {<<"a">>, <<"alpha">>, <<"o">>, <<"open_o">>}>>,
    <<<<"esh">>, {<<"t">>}>>,
    <<<<"ezh">>, {<<"d">>}>>,
    <<<<"r">>, {<<"turned_v">>, <<"schwa">>, <<"rev_open_e", "rhotic_hook">>}>>,
    <<<<"turned_r">>, {<<"turned_v">>, <<"schwa">>}>>,
    <<<<"syllabic_mark">>, {<<"n">>, <<"l">>, <<"m">>}>>,
    <<<<"nasal_tilde">>, {<<"i">>, <<"small_cap_i">>, <<"e">>, <<"open_e">>, <<"ash">>, <<"turned_v">>, <<"schwa">>, <<"a">>, <<"alpha">>, <<"open_o">>, <<"o">>, <<"upsilon">>, <<"u">>}>>,
    <<<<"rhotic_hook">>, {<<"rev_open_e">>}>> >>)

cReplacement ==
  DictLiteral(<<
    <<<<"t", "esh">>, <<"tesh">>>>,
    <<<<"schwa", "l">>, <<"l", "syllabic_mark">>>>,
    <<<<"turned_v", "turned_r">>, <<"schwa_hook">>>>,
    <<<<"schwa", "turned_r">>, <<"schwa_hook">>>>,
    <<<<"rev_open_e", "rhotic_hook", "r">>, <<"schwa_hook">>>>,
    <<<<"rev_open_e", "rhotic_hook">>, <<"schwa_hook">>>>,
    <<<<"schwa", "r">>, <<"schwa_hook">>>>,
    <<<<"o", "small_cap_i">>, <<"open_o", "small_cap_i">>>>,
    <<<<"o", "upsilon">>, <<"o">>>>,
    <<<<"d", "ezh">>, <<"dezh">>>>,
    <<<<"a">>, <<"alpha">>>> >>)

cArpaToIPA ==
  DictLiteral(<<
    <<<<"A", "O">>, <<"open_o">>>>,
    <<<<"A", "A">>, <<"alpha">>>>,
    <<<<"I", "Y">>, <<"i">>>>,
    <<<<"U", "W">>, <<"u">>>>,
    <<<<"E", "H">>, <<"open_e">>>>,
    <<<<"I", "H">>, <<"small_cap_i">>>>,
    <<<<"U", "H">>, <<"upsilon">>>>,
    <<<<"A", "H">>, <<"turned_v">>>>,
    <<<<"A", "H", "0">>, <<"schwa">>>>,
    <<<<"A", "E">>, <<"ash">>>>,
    <<<<"A", "X">>, <<"schwa">>>>,
    <<<<"E", "Y">>, <<"e", "small_cap_i">>>>,
    <<<<"A", "Y">>, <<"a", "small_cap_i">>>>,
    <<<<"O", "W">>, <<"o", "upsilon">>>>,
    <<<<"O", "W">>, <<"o">>>>,
    <<<<"A", "W">>, <<"a", "upsilon">>>>,
    <<<<"O", "Y">>, <<"open_o", "small_cap_i">>>>,
    <<<<"E", "R">>, <<"schwa_hook">>>>,
    <<<<"P">>, <<"p">>>>,
    <<<<"B">>, <<"b">>>>,
    <<<<"T">>, <<"t">>>>,
    <<<<"D">>, <<"d">>>>,
    <<<<"K">>, <<"k">>>>,
    <<<<"G">>, <<"g">>>>,
    <<<<"C", "H">>, <<"tesh">>>>,
    <<<<"J", "H">>, <<"dezh">>>>,
    <<<<"F">>, <<"f">>>>,
    <<<<"V">>, <<"v">>>>,
    <<<<"T", "H">>, <<"theta">>>>,
    <<<<"D", "H">>, <<"eth">>>>,
    <<<<"S">>, <<"s">>>>,
    <<<<"Z">>, <<"z">>>>,
    <<<<"S", "H">>, <<"esh">>>>,
    <<<<"Z", "H">>, <<"ezh">>>>,
    <<<<"H", "H">>, <<"h">>>>,
    <<<<"M">>, <<"m">>>>,
    <<<<"N">>, <<"n">>>>,
    <<<<"N", "G">>, <<"eng">>>>,
    <<<<"L">>, <<"l">>>>,
    <<<<"R">>, <<"r">>>>,
    <<<<"W">>, <<"w">>>>,
    <<<<"Y">>, <<"j">>>>,
    <<<<"Q">>, <<"glottal_stop">>>> >>)

cVowels ==
  {<<"open_o">>, <<"alpha">>, <<"i">>, <<"u">>, <<"open_e">>, <<"small_cap_i">>, <<"upsilon">>, <<"turned_v">>, <<"schwa">>, <<"ash">>, <<"schwa">>, <<"e">>, <<"e", "small_cap_i">>, <<"a", "small_cap_i">>, <<"o", "upsilon">>, <<"o">>, <<"a", "upsilon">>, <<"open_o", "small_cap_i">>, <<"schwa_hook">>}

cConsonants ==
  {<<"P">>, <<"B">>, <<"T">>, <<"D">>, <<"K">>, <<"G">>, <<"C", "H">>, <<"J", "H">>, <<"F">>, <<"V">>, <<"T", "H">>, <<"D", "H">>, <<"S">>, <<"Z">>, <<"S", "H">>, <<"Z", "H">>, <<"H", "H">>, <<"M">>, <<"N">>, <<"N", "G">>, <<"L">>, <<"R">>, <<" ", "Q">>}

(***************************************************************************)
(* _get_child_phones: the coalescing of a child's annotated phones         *)
(***************************************************************************)

LENGTH_MARK == <<"length_mark">>
LPAREN == <<"(">>
SCHWA == <<"schwa">>
LATERAL == <<"l">>

\* phones = [], last_phone = '', the loop at its first element.
ChildEnter(xmlphones) ==
  [xmlphones |-> xmlphones, i |-> 1, phones |-> <<>>, last_phone |-> <<>>,
   pc |-> "loop"]

ChildIdle ==
  [xmlphones |-> <<>>, i |-> 1, phones |-> <<>>, last_phone |-> <<>>,
   pc |-> "idle"]

\* if phones[-1] in cReplacement.keys(): phones[-1] = cReplacement[phones[-1]]
ReplaceOnlyFresh(unit) ==
  IF Len(unit) = 1 /\ unit \in DOMAIN cReplacement THEN cReplacement[unit] ELSE unit

Replace(unit) ==
  IF unit \in DOMAIN cReplacement THEN cReplacement[unit] ELSE unit

\* The symbol is put into phones: merged into phones[-1] by the digraph rule
\* or by the schwa + l rule, or else appended.
Place(f, this_phone) ==
  IF /\ this_phone \in DOMAIN cDigraphs
     /\ f.last_phone \in cDigraphs[this_phone]
  THEN SetLast(f.phones, Last(f.phones) \o this_phone)
  ELSE IF /\ \/ f.i = Len(f.xmlphones)
             \/ f.xmlphones[f.i + 1] \in cVowels
          /\ this_phone = LATERAL
          /\ f.last_phone = SCHWA
  THEN SetLast(f.phones, Last(f.phones) \o this_phone)
  ELSE Append(f.phones, this_phone)

\* One iteration of the loop over xmlphones, on the element at f.i.
ChildStepMarkerSeen(f) ==
  LET this_phone == f.xmlphones[f.i] IN
  IF this_phone = LENGTH_MARK
  THEN [f EXCEPT !.i = @ + 1, !.last_phone = this_phone]
  ELSE IF this_phone = LPAREN
  THEN [f EXCEPT !.pc = "done"]
  ELSE LET placed == Place(f, this_phone) IN
       [f EXCEPT !.phones = SetLast(placed, Replace(Last(placed))),
                 !.last_phone = this_phone,
                 !.i = @ + 1]

ChildStepNoBreak(f) ==
  LET this_phone == f.xmlphones[f.i] IN
  IF this_phone = LENGTH_MARK \/ this_phone = LPAREN
  THEN [f EXCEPT !.i = @ + 1]
  ELSE LET placed == Place(f, this_phone) IN
       [f EXCEPT !.phones = SetLast(placed, Replace(Last(placed))),
                 !.last_phone = this_phone,
                 !.i = @ + 1]

ChildStep(f) ==
  LET this_phone == f.xmlphones[f.i] IN
  IF this_phone = LENGTH_MARK
  THEN [f EXCEPT !.i = @ + 1]
  ELSE IF this_phone = LPAREN
  THEN [f EXCEPT !.pc = "done"]
  ELSE LET placed == Place(f, this_phone) IN
       [f EXCEPT !.phones = SetLast(placed, Replace(Last(placed))),
                 !.last_phone = this_phone,
                 !.i = @ + 1]

\* The loop run to its end: the list _get_child_phones returns.
RECURSIVE ChildRun(_)
ChildRun(f) ==
  IF f.pc = "loop" /\ f.i <= Len(f.xmlphones) THEN ChildRun(ChildStep(f)) ELSE f

ChildPhones(xmlphones) == ChildRun(ChildEnter(xmlphones)).phones

(***************************************************************************)
(* _arpa_to_ipa: the translation of a dictionary pronunciation             *)
(***************************************************************************)

AH0 == <<"A", "H", "0">>

RECURSIVE LStrip(_, _)
LStrip(s, chars) ==
  IF s /= <<>> /\ Head(s) \in chars THEN LStrip(Tail(s), chars) ELSE s

RECURSIVE RStrip(_, _)
RStrip(s, chars) ==
  IF s /= <<>> /\ Last(s) \in chars
  THEN RStrip(SubSeq(s, 1, Len(s) - 1), chars)
  ELSE s

\* str.strip(chars): the characters of chars removed from both ends.
Strip(s, chars) == RStrip(LStrip(s, chars), chars)

\* The key looked up for p: p without its stress digits, 'AH0' kept whole.
ArpaKey(p) == IF p /= AH0 THEN Strip(p, {"0", "1", "2"}) ELSE p

ArpaEnter(transcription) ==
  [transcription |-> transcription, i |-> 1, ipa_transcription |-> <<>>,
   pc |-> "loop"]

ArpaIdle ==
  [transcription |-> <<>>, i |-> 1, ipa_transcription |-> <<>>, pc |-> "idle"]

\* The look-ahead of the merge test: the l is the last symbol, or the next
\* Arpabet symbol is a member of cConsonants.
Lookahead(f) ==
  \/ f.i = Len(f.transcription)
  \/ f.transcription[f.i + 1] \in cConsonants

\* One iteration of the loop over transcription, on the symbol at f.i.  An
\* unmapped symbol raises KeyError; ipa_transcription[-1] of the empty list
\* raises IndexError.
ArpaStep(f) ==
  LET key == ArpaKey(f.transcription[f.i]) IN
  IF key \notin DOMAIN cArpaToIPA
  THEN [f EXCEPT !.pc = "KeyError"]
  ELSE LET this_phone == cArpaToIPA[key] IN
       IF Lookahead(f) /\ this_phone = LATERAL
       THEN IF f.ipa_transcription = <<>>
            THEN [f EXCEPT !.pc = "IndexError"]
            ELSE IF Last(f.ipa_transcription) = SCHWA
            THEN [f EXCEPT !.ipa_transcription =
                              SetLast(@, Last(@) \o this_phone),
                           !.i = @ + 1]
            ELSE [f EXCEPT !.ipa_transcription = Append(@, this_phone),
                           !.i = @ + 1]
       ELSE [f EXCEPT !.ipa_transcription = Append(@, this_phone),
                      !.i = @ + 1]

RECURSIVE ArpaRun(_)
ArpaRun(f) ==
  IF f.pc = "loop"
  THEN IF f.i <= Len(f.transcription)
       THEN ArpaRun(ArpaStep(f))
       ELSE [f EXCEPT !.pc = "done"]
  ELSE f

\* The call run to its end: pc is "done" with the list returned, or the
\* error raised.
ArpaToIpa(transcription) == ArpaRun(ArpaEnter(transcription))

(***************************************************************************)
(* Python values that change type at run time                              *)
(***************************************************************************)

\* stem and transcription are parameters (flags) that the word loop rebinds
\* to the stem and the transcription of the last word: a value carries its
\* type.
PyBool(b) == [type |-> "bool", v |-> b]
PyStr(s) == [type |-> "str", v |-> s]
PyList(l) == [type |-> "list", v |-> l]

\* The truth value of "if x:".  A namedtuple of two fields is a non-empty
\* tuple, hence true.
Truthy(x) ==
  CASE x.type = "bool" -> x.v
    [] x.type = "str" -> x.v /= <<>>
    [] x.type = "list" -> x.v /= <<>>
    [] x.type = "transcription" -> TRUE

UpperCase ==
  <<"A", "B", "C", "D", "E", "F", "G", "H", "I", "J", "K", "L", "M",
    "N", "O", "P", "Q", "R", "S", "T", "U", "V", "W", "X", "Y", "Z">>

LowerCase ==
  <<"a", "b", "c", "d", "e", "f", "g", "h", "i", "j", "k", "l", "m",
    "n", "o", "p", "q", "r", "s", "t", "u", "v", "w", "x", "y", "z">>

\* str.lower()
Lower(s) ==
  [n \in DOMAIN s |->
     IF \E k \in DOMAIN UpperCase : UpperCase[k] = s[n]
     THEN LowerCase[CHOOSE k \in DOMAIN UpperCase : UpperCase[k] = s[n]]
     ELSE s[n]]

Whitespace == {" ", "\t", "\n", "\r"}

Digits == <<"0", "1", "2", "3", "4", "5", "6", "7", "8", "9">>

\* float(s) of a string of decimal digits
RECURSIVE Float(_)
Float(s) ==
  IF s = <<>> THEN 0
  ELSE 10 * Float(SubSeq(s, 1, Len(s) - 1))
         + (CHOOSE d \in 0..9 : Digits[d + 1] = Last(s))

(***************************************************************************)
(* _get_word_pos and _get_word_stem: the morphology of a word node         *)
(*                                                                         *)
(* A word node carries the texts of its <c> and <s> under mor/mw/pos (c,   *)
(* s), of those under mor/mor-post/mw/pos (post_c, post_s), of its <stem>  *)
(* and <mk> under mor/mw and of the <stem> under mor/mor-post/mw, each a   *)
(* list in document order.                                                 *)
(***************************************************************************)

\* findall('.//c') and findall('.//s'): every descendant, those of the
\* suffix included, in document order.
FindAllC(xmlword) == xmlword.c \o xmlword.post_c

FindAllS(xmlword) == xmlword.s \o xmlword.post_s

GetWordPos(xmlword) ==
  LET xmlpos == FindAllC(xmlword)
      xmlpos2 == FindAllS(xmlword)
      tag == IF xmlpos = <<>> THEN <<>>
             ELSE IF xmlpos2 /= <<>>
             THEN xmlpos[1] \o <<":">> \o xmlpos2[1]
             ELSE xmlpos[1]
      xmlsuffixpos == xmlword.post_c
      xmlsuffixpos2 == xmlword.post_s
      suffixTag == IF xmlsuffixpos = <<>> THEN <<>>
                   ELSE IF xmlsuffixpos2 /= <<>>
                   THEN xmlsuffixpos[1] \o <<":">> \o xmlsuffixpos2[1]
                   ELSE xmlsuffixpos[1]
  IN  IF suffixTag /= <<>> THEN tag \o <<"~">> \o suffixTag ELSE tag

\* find('.//stem'): the first <stem> in document order.
GetWordStem(xmlword, word) ==
  LET xmlstem == xmlword.stem \o xmlword.post_stem
      base == IF xmlstem = <<>> THEN word ELSE xmlstem[1]
      infl == IF xmlword.mk = <<>> THEN base
              ELSE base \o <<"-">> \o xmlword.mk[1]
      suffixStem == IF xmlword.post_stem = <<>> THEN <<>>
                    ELSE xmlword.post_stem[1]
  IN  IF suffixStem /= <<>> THEN infl \o <<"~">> \o suffixStem ELSE infl

(***************************************************************************)
(* _get_words: the word loop over one transcript                           *)
(*                                                                         *)
(* A transcript is the list of its <u> elements; an utterance carries its  *)
(* who attribute, the start and end attributes of its <media> (an empty    *)
(* list when it has none) and its word nodes in document order.  A word    *)
(* node carries the text of its <w>, whether a <pg> wraps it, the <ph>     *)
(* texts of the <model> and <actual> of that <pg>, and its morphology.     *)
(***************************************************************************)

\* _get_media_times: (start, end) of the utterance's <media>, or (0.0, 0.0)
\* when find() returns None.
GetMediaTimes(xmlsent) ==
  IF xmlsent.media = <<>> THEN <<0, 0>>
  ELSE <<Float(xmlsent.media[1]), Float(xmlsent.media[2])>>

\* _get_word_text: the text of the <w> ('' when it has none), stripped.
GetWordText(xmlword, strip_space) ==
  IF strip_space THEN Strip(xmlword.text, Whitespace) ELSE xmlword.text

\* nltk.corpus.cmudict.dict(), a sample: a word's pronunciations in order.
cmu ==
  DictLiteral(<<
    <<(<<"b", "a", "l", "l">>),
      <<(<<(<<"B">>), (<<"A", "O", "1">>), (<<"L">>)>>)>> >>,
    <<(<<"h", "e", "l", "l", "o">>),
      <<(<<(<<"H", "H">>), AH0, (<<"L">>), (<<"O", "W", "1">>)>>),
        (<<(<<"H", "H">>), (<<"E", "H", "0">>), (<<"L">>), (<<"O", "W", "1">>)>>)>> >>,
    <<(<<"t", "h", "a", "t", "'", "s">>),
      <<(<<(<<"D", "H">>), (<<"A", "E", "1">>), (<<"T">>), (<<"S">>)>>)>> >> >>)

CHI_ONLY == PyList(<<"CHI">>)
ALL == PyStr("ALL")

\* _get_transcription: the (model, actual) namedtuple when speaker is
\* ['CHI'], else the first dictionary pronunciation turned into IPA.  The
\* result carries pc "done", or the error _arpa_to_ipa raised.
GetTranscription(xmlword, orthography, speaker, ipa) ==
  IF speaker = CHI_ONLY
  THEN [pc |-> "done",
        v |-> [type |-> "transcription",
               model |-> ChildPhones(xmlword.model),
               actual |-> ChildPhones(xmlword.actual)]]
  ELSE LET key == Strip(orthography, Whitespace)
           transcription == IF key \in DOMAIN cmu THEN cmu[key][1] ELSE <<>>
           call == ArpaToIpa(transcription)
       IN  IF ipa
           THEN [pc |-> call.pc, v |-> PyList(call.ipa_transcription)]
           ELSE [pc |-> "done", v |-> PyList(transcription)]

\* The word elements of an utterance: the <pg> elements when speaker is
\* ['CHI'], every <w> otherwise.
FindWords(xmlsent, speaker) ==
  IF speaker = CHI_ONLY
  THEN SelectSeq(xmlsent.w, LAMBDA xmlword : xmlword.pg)
  ELSE xmlsent.w

\* speaker == 'ALL' or xmlsent.get('who') in speaker
Selected(xmlsent, speaker) ==
  \/ speaker = ALL
  \/ \E n \in DOMAIN speaker.v : speaker.v[n] = xmlsent.who

\* if word not in cmu: continue.  The test reads the word alone: it is the
\* same under every speaker filter of the frame, ['CHI'] included.
SkipWordUnlessChild(f, word) ==
  f.speaker /= CHI_ONLY /\ word \notin DOMAIN cmu

SkipWord(f, word) == word \notin DOMAIN cmu

\* One word of the loop over xmlwords.  f is the frame of _get_words; sents
\* is the list being built for the utterance; at = <<u, k>> names the k-th
\* of the word elements found in the u-th <u> and is carried by the element
\* the word gives, to tell where an element of the result came from.
WordStep(f, sents, xmlword, at) ==
  LET word == Lower(GetWordText(xmlword, f.strip_space))
      orthography == word
      stem == IF Truthy(f.stem)
              THEN PyStr(Lower(GetWordStem(xmlword, word)))
              ELSE f.stem
      pos_tag == GetWordPos(xmlword)
      got == IF Truthy(f.transcription)
             THEN GetTranscription(xmlword, orthography, f.speaker, f.ipa)
             ELSE [pc |-> "done", v |-> f.transcription]
      transcription == got.v
      element ==
        IF f.word_info
        THEN [type |-> "word_info", fileid |-> f.filename,
              age |-> f.age_month, orthography |-> orthography,
              stem |-> stem, transcription |-> transcription,
              pos |-> pos_tag, media_times |-> f.media_times, at |-> at]
        ELSE IF f.utt_times
        THEN [type |-> "times", orthography |-> orthography,
              media_times |-> f.media_times, at |-> at]
        ELSE IF Truthy(f.transcription)
        THEN [type |-> "transcription", orthography |-> orthography,
              transcription |-> transcription, at |-> at]
        ELSE IF f.pos
        THEN [type |-> "tagged", orthography |-> orthography,
              pos |-> pos_tag, at |-> at]
        ELSE [type |-> "str", orthography |-> orthography, at |-> at]
  IN  IF SkipWord(f, word)
      THEN [f |-> f, sents |-> sents]
      ELSE IF got.pc /= "done"
      THEN [f |-> [f EXCEPT !.stem = stem, !.pc = got.pc], sents |-> sents]
      ELSE [f |-> [f EXCEPT !.stem = stem, !.transcription = transcription],
            sents |-> Append(sents, element)]

\* for xmlword in xmlwords, from the k-th on, until an error is raised
RECURSIVE WordLoop(_, _, _, _)
WordLoop(f, sents, xmlwords, k) ==
  IF k > Len(xmlwords) \/ f.pc /= "loop"
  THEN [f |-> f, sents |-> sents]
  ELSE LET r == WordStep(f, sents, xmlwords[k], <<f.u, k>>)
       IN  WordLoop(r.f, r.sents, xmlwords, k + 1)

\* An utterance the speaker test leaves out: nothing is added to results.
SkipSentAddsGroup(f) ==
  [f EXCEPT !.u = @ + 1,
            !.results = IF f.sent THEN Append(@, PyList(<<>>)) ELSE @]

SkipSent(f) == [f EXCEPT !.u = @ + 1]

\* if utt_times: media_times = self._get_media_times(xmlsent)
ResolveMediaTimesWhenPresent(f, xmlsent) ==
  IF f.utt_times /\ (xmlsent.media /= <<>> \/ f.media_times = <<>>)
  THEN [f EXCEPT !.media_times = GetMediaTimes(xmlsent)]
  ELSE f

ResolveMediaTimes(f, xmlsent) ==
  IF f.utt_times
  THEN [f EXCEPT !.media_times = GetMediaTimes(xmlsent)]
  ELSE f

\* One utterance of the loop over the <u> elements: its media times, the
\* speaker test, its words, and the list of its words added to results as
\* one group (sent) or spliced in.
SentStep(f) ==
  LET xmlsent == f.xmldoc[f.u]
      g == ResolveMediaTimes(f, xmlsent)
  IN  IF Selected(xmlsent, g.speaker)
      THEN LET r == WordLoop(g, <<>>, FindWords(xmlsent, g.speaker), 1)
           IN  IF r.f.pc /= "loop"
               THEN r.f
               ELSE [r.f EXCEPT
                       !.u = @ + 1,
                       !.retained = Append(@, f.u),
                       !.results = IF r.f.sent
                                   THEN Append(@, PyList(r.sents))
                                   ELSE @ \o r.sents]
      ELSE SkipSent(g)

\* The default of the sent parameter of each public method.
SentDefault(fn) == IF fn = "words_info" THEN FALSE ELSE TRUE

\* The parameters each public method hands to _get_words, and the state of
\* _get_words before its loop; sent is what the caller passes: "True",
\* "False", or "default" when the caller leaves it out.
GetWordsEnter(fn, speaker, sent, xmldoc) ==
  [fn |-> fn,
   call |-> [speaker |-> speaker, sent |-> sent],
   speaker |-> IF speaker.type = "str" /\ speaker /= ALL
               THEN PyList(<<speaker.v>>)
               ELSE speaker,
   sent |-> IF fn = "words_info" THEN FALSE
            ELSE IF sent = "default" THEN SentDefault(fn)
            ELSE sent = "True",
   stem |-> PyBool(fn = "words_info"),
   pos |-> (fn /= "words_transcription"),
   strip_space |-> TRUE,
   ipa |-> TRUE,
   transcription |-> PyBool(fn /= "words_times"),
   utt_times |-> (fn /= "words_transcription"),
   word_info |-> (fn = "words_info"),
   filename |-> <<"f", ".", "x", "m", "l">>,
   age_month |-> 14,
   xmldoc |-> xmldoc,
   u |-> 1,
   media_times |-> <<>>,
   retained |-> <<>>,
   results |-> <<>>,
   pc |-> "loop"]

RECURSIVE WordsRun(_)
WordsRun(f) ==
  IF f.pc = "loop"
  THEN IF f.u <= Len(f.xmldoc)
       THEN WordsRun(SentStep(f))
       ELSE [f EXCEPT !.pc = "done"]
  ELSE f

\* The call run to its end.
GetWords(fn, speaker, sent, xmldoc) ==
  WordsRun(GetWordsEnter(fn, speaker, sent, xmldoc))

(***************************************************************************)
(* Bounds and sampled inputs                                               *)
(***************************************************************************)

\* The longest list of <ph> elements of one model or actual branch.
MaxPhones == 3

SeqsUpTo(S, n) == UNION {[1..k -> S] : k \in 0..n}

\* The <ph> texts the inputs are drawn from: digraph keys with and without
\* their left contexts, schwa and l, vowels, the two markers.
RawSymbols ==
  {<<"t">>, <<"esh">>, SCHWA, LATERAL, <<"a">>, <<"small_cap_i">>, <<"o">>,
   <<"r">>, LENGTH_MARK, LPAREN}

\* The longest dictionary pronunciation.
MaxArpa == 4

\* The Arpabet symbols the inputs are drawn from: consonants that are and
\* are not members of cConsonants, stressed and reduced vowels, L, and one
\* symbol the table does not map.
ArpaSymbols ==
  {<<"H", "H">>, AH0, <<"A", "H", "1">>, <<"L">>, <<"O", "W">>, <<"T">>,
   <<"W">>, <<"X", "X">>}

\* The most <s> subcategories of one <pos>.
MaxSubcats == 1

Categories == {<<"n">>, <<"v">>, <<"p", "r", "o">>}

Subcategories == {<<"p", "r", "o", "p">>, <<"c", "o", "p">>}

\* The <pos> of an <mw>: absent, or one <c> and its <s> elements.
PosNodes ==
  {[c |-> <<>>, s |-> <<>>]}
    \cup {[c |-> <<c>>, s |-> s] :
            c \in Categories, s \in SeqsUpTo(Subcategories, MaxSubcats)}

\* The morphologies of a word node: mor-post only beside an <mw> of the word.
PosWords ==
  {[c |-> own.c, s |-> own.s, post_c |-> post.c, post_s |-> post.s] :
     own \in PosNodes, post \in PosNodes} \ 
  {w \in [c : {<<>>}, s : {<<>>}, post_c : SeqsUpTo(Categories, 1),
          post_s : SeqsUpTo(Subcategories, MaxSubcats)] : w.post_c /= <<>>}

PosEnter(xmlword) == [xmlword |-> xmlword, tag |-> <<>>, pc |-> "call"]

PosIdle ==
  [xmlword |-> [c |-> <<>>, s |-> <<>>, post_c |-> <<>>, post_s |-> <<>>],
   tag |-> <<>>, pc |-> "idle"]
\* The most element nodes (<u> and <w>) of one transcript.
MaxNodes == 3

\* "Ball " in a <pg> with model and actual phones.
BallNode ==
  [text |-> <<"B", "a", "l", "l", " ">>, pg |-> TRUE,
   model |-> <<(<<"b">>), (<<"open_o">>), (<<"l">>)>>,
   actual |-> <<(<<"b">>), (<<"a">>)>>,
   c |-> <<(<<"n">>)>>, s |-> <<>>, post_c |-> <<>>, post_s |-> <<>>,
   stem |-> <<(<<"b", "a", "l", "l">>)>>, mk |-> <<>>, post_stem |-> <<>>]

\* "hello" in a <pg> that has no model and no actual phones.
HelloNode ==
  [text |-> <<"h", "e", "l", "l", "o">>, pg |-> TRUE,
   model |-> <<>>, actual |-> <<>>,
   c |-> <<(<<"c", "o">>)>>, s |-> <<>>, post_c |-> <<>>, post_s |-> <<>>,
   stem |-> <<(<<"h", "e", "l", "l", "o">>)>>, mk |-> <<>>,
   post_stem |-> <<>>]

\* "gaga", which the dictionary does not list, in a <pg> with phones.
GagaNode ==
  [text |-> <<"g", "a", "g", "a">>, pg |-> TRUE,
   model |-> <<(<<"g">>), (<<"a">>)>>, actual |-> <<(<<"g">>), (<<"a">>)>>,
   c |-> <<>>, s |-> <<>>, post_c |-> <<>>, post_s |-> <<>>,
   stem |-> <<>>, mk |-> <<>>, post_stem |-> <<>>]

\* "that's", a bare <w> with a suffix in its morphology.
ThatsNode ==
  [text |-> <<"t", "h", "a", "t", "'", "s">>, pg |-> FALSE,
   model |-> <<>>, actual |-> <<>>,
   c |-> <<(<<"p", "r", "o">>)>>, s |-> <<(<<"d", "e", "m">>)>>,
   post_c |-> <<(<<"v">>)>>, post_s |-> <<(<<"c", "o", "p">>)>>,
   stem |-> <<(<<"t", "h", "a", "t">>)>>, mk |-> <<>>,
   post_stem |-> <<(<<"b", "e">>)>>]

\* A bare <w> whose text is one space: '' once stripped.
BlankNode ==
  [text |-> <<" ">>, pg |-> FALSE,
   model |-> <<>>, actual |-> <<>>,
   c |-> <<>>, s |-> <<>>, post_c |-> <<>>, post_s |-> <<>>,
   stem |-> <<>>, mk |-> <<>>, post_stem |-> <<>>]

WordNodes == {BallNode, HelloNode, GagaNode, ThatsNode, BlankNode}

\* The utterances of n nodes: a <u> and n - 1 <w>.
Utterances(n) ==
  [who : {"CHI", "MOT"}, media : {<<>>, <<(<<"3">>), (<<"1", "2">>)>>},
   w : [1..(n - 1) -> WordNodes]]

\* The transcripts of exactly n nodes.
RECURSIVE Transcripts(_)
Transcripts(n) ==
  IF n = 0 THEN {<<>>}
  ELSE UNION {{<<xmlsent>> \o rest :
                 xmlsent \in Utterances(k), rest \in Transcripts(n - k)} :
              k \in 1..n}

Speakers ==
  {ALL, PyStr("CHI"), CHI_ONLY, PyList(<<"MOT">>), PyList(<<"CHI", "MOT">>)}

WordsIdle ==
  [GetWordsEnter("words_info", ALL, "default", <<>>) EXCEPT !.pc = "idle"]

(***************************************************************************)
(* The specification of _arpa_to_ipa                                       *)
(***************************************************************************)

InitArpa ==
  /\ arpa \in {ArpaEnter(s) : s \in SeqsUpTo(ArpaSymbols, MaxArpa)}
  /\ child = ChildIdle
  /\ wpos = PosIdle
  /\ words = WordsIdle

\* for i, p in enumerate(transcription): one iteration
ArpaLoop ==
  /\ arpa.pc = "loop"
  /\ arpa.i <= Len(arpa.transcription)
  /\ arpa' = ArpaStep(arpa)
  /\ UNCHANGED <<child, wpos, words>>

\* the loop is exhausted: return ipa_transcription
ArpaReturn ==
  /\ arpa.pc = "loop"
  /\ arpa.i > Len(arpa.transcription)
  /\ arpa' = [arpa EXCEPT !.pc = "done"]
  /\ UNCHANGED <<child, wpos, words>>

NextArpa == ArpaLoop \/ ArpaReturn

SpecArpa == InitArpa /\ [][NextArpa]_vars

(***************************************************************************)
(* Claims about _arpa_to_ipa (checked under SpecArpa)                      *)
(***************************************************************************)

AllMapped(transcription) ==
  \A n \in DOMAIN transcription :
     ArpaKey(transcription[n]) \in DOMAIN cArpaToIPA

\* The l is the last symbol, or the next symbol translates to a vowel.
LookaheadIsVowel(f) ==
  \/ f.i = Len(f.transcription)
  \/ cArpaToIPA[ArpaKey(f.transcription[f.i + 1])] \in cVowels

\* The loop is about to translate an l while the last output unit is schwa.
LateralAfterSchwaStep ==
  /\ arpa.pc = "loop"
  /\ arpa.i <= Len(arpa.transcription)
  /\ AllMapped(arpa.transcription)
  /\ cArpaToIPA[ArpaKey(arpa.transcription[arpa.i])] = LATERAL
  /\ arpa.ipa_transcription /= <<>>
  /\ Last(arpa.ipa_transcription) = SCHWA

\* C1: an l translated while the last output unit is schwa is merged into
\* that unit exactly when it is the last symbol or the next symbol is a
\* vowel, and is appended as its own unit otherwise; HH AH0 L OW gives
\* h, schwa+l, o.
C1_LateralMergedBeforeVowel ==
  /\ [][LateralAfterSchwaStep =>
          IF LookaheadIsVowel(arpa)
          THEN arpa'.ipa_transcription =
                 SetLast(arpa.ipa_transcription, SCHWA \o LATERAL)
          ELSE arpa'.ipa_transcription =
                 Append(arpa.ipa_transcription, LATERAL)]_vars
  /\ []((/\ arpa.pc = "done"
         /\ arpa.transcription = <<(<<"H", "H">>), AH0, (<<"L">>), (<<"O", "W">>)>>)
          => arpa.ipa_transcription =
               <<(<<"h">>), (<<"schwa", "l">>), (<<"o">>)>>)

\* C11: on every sequence of symbols that the table maps the translation
\* returns a list and raises nothing, sequences that begin with L and the
\* one-symbol sequence L included (L alone gives the one unit l); the only
\* error it raises is the KeyError of a symbol the table does not map.
C11_TotalOnMappedInput ==
  /\ AllMapped(arpa.transcription) => arpa.pc \in {"idle", "loop", "done"}
  /\ arpa.pc \notin {"idle", "loop", "done"} =>
       /\ arpa.pc = "KeyError"
       /\ ~AllMapped(arpa.transcription)
  /\ (arpa.pc = "done" /\ arpa.transcription = <<(<<"L">>)>>)
       => arpa.ipa_transcription = <<LATERAL>>

(***************************************************************************)
(* The specification of _get_word_pos                                      *)
(***************************************************************************)

InitPos ==
  /\ wpos \in {PosEnter(w) : w \in PosWords}
  /\ arpa = ArpaIdle
  /\ child = ChildIdle
  /\ words = WordsIdle

\* return tag
PosReturn ==
  /\ wpos.pc = "call"
  /\ wpos' = [wpos EXCEPT !.tag = GetWordPos(wpos.xmlword), !.pc = "done"]
  /\ UNCHANGED <<arpa, child, words>>

NextPos == PosReturn

SpecPos == InitPos /\ [][NextPos]_vars

(***************************************************************************)
(* Claims about _get_word_pos (checked under SpecPos)                      *)
(***************************************************************************)

\* category, joined by ':' with the subcategory when the pos has both
JoinedTag(c, s) ==
  IF c = <<>> THEN <<>>
  ELSE IF s /= <<>> THEN c[1] \o <<":">> \o s[1] ELSE c[1]

\* C10: the tag is the word's own category, joined by ':' with the word's
\* own subcategory exactly when its own pos has both, followed by '~' and
\* the suffix tag (built the same way from the suffix pos) exactly when the
\* word has a suffix pos; a subcategory of the suffix alone never shows
\* before the '~'.
C10_TagBuiltFromOwnPos ==
  wpos.pc = "done" =>
    wpos.tag =
      JoinedTag(wpos.xmlword.c, wpos.xmlword.s)
        \o (IF wpos.xmlword.post_c = <<>> THEN <<>>
            ELSE <<"~">> \o JoinedTag(wpos.xmlword.post_c, wpos.xmlword.post_s))

(***************************************************************************)
(* The specification of words_info, words_times and words_transcription    *)
(* on one file                                                             *)
(***************************************************************************)

InitWords ==
  /\ words \in
       {GetWordsEnter(fn, speaker, sent, xmldoc) :
          fn \in {"words_info", "words_times", "words_transcription"},
          speaker \in Speakers,
          sent \in {"default", "True", "False"},
          xmldoc \in UNION {Transcripts(n) : n \in 0..MaxNodes}}
  /\ arpa = ArpaIdle
  /\ child = ChildIdle
  /\ wpos = PosIdle

\* for xmlsent in xmldoc.findall('.//u'): one utterance
WordsSent ==
  /\ words.pc = "loop"
  /\ words.u <= Len(words.xmldoc)
  /\ words' = SentStep(words)
  /\ UNCHANGED <<arpa, child, wpos>>

\* return results
WordsReturn ==
  /\ words.pc = "loop"
  /\ words.u > Len(words.xmldoc)
  /\ words' = [words EXCEPT !.pc = "done"]
  /\ UNCHANGED <<arpa, child, wpos>>

NextWords == WordsSent \/ WordsReturn

SpecWords == InitWords /\ [][NextWords]_vars

(***************************************************************************)
(* Claims about the word loop (checked under SpecWords)                    *)
(***************************************************************************)

\* The elements of results, the groups opened up, in order.
RECURSIVE Flatten(_)
Flatten(results) ==
  IF results = <<>> THEN <<>>
  ELSE (IF Head(results).type = "list" THEN Head(results).v
        ELSE <<Head(results)>>) \o Flatten(Tail(results))

\* The utterance and the word node an element of the result came from.
SentOf(e) == words.xmldoc[e.at[1]]

NodeOf(e) == FindWords(SentOf(e), words.speaker)[e.at[2]]

\* The speaker codes of the caller's filter.
Codes(speaker) ==
  IF speaker.type = "str" THEN {speaker.v}
  ELSE {speaker.v[n] : n \in DOMAIN speaker.v}

\* The positions below u of the utterances whose speaker is in codes.
UtterancesOf(codes, u) ==
  SelectSeq([n \in 1..(u - 1) |-> n],
            LAMBDA n : words.xmldoc[n].who \in codes)

\* C5: a word of words_info or words_transcription carries the (model,
\* actual) pair built from its annotated phones when its utterance's speaker
\* is CHI, and the flat IPA list of its dictionary entry otherwise, under
\* every speaker filter.
C5_ShapeFollowsUtteranceSpeaker ==
  words.fn \in {"words_info", "words_transcription"} =>
    \A n \in DOMAIN Flatten(words.results) :
       LET e == Flatten(words.results)[n] IN
       IF SentOf(e).who = "CHI"
       THEN e.transcription =
              [type |-> "transcription",
               model |-> ChildPhones(NodeOf(e).model),
               actual |-> ChildPhones(NodeOf(e).actual)]
       ELSE e.transcription =
              PyList(ArpaToIpa(cmu[e.orthography][1]).ipa_transcription)

\* C6: words_info raises no error and gives no record whose transcription is
\* empty: neither an empty IPA list nor a pair without model and actual
\* phones.
C6_NoRecordWithoutTranscription ==
  words.fn = "words_info" =>
    /\ words.pc \in {"loop", "done"}
    /\ \A n \in DOMAIN Flatten(words.results) :
         LET t == Flatten(words.results)[n].transcription IN
         IF t.type = "transcription"
         THEN t.model /= <<>> \/ t.actual /= <<>>
         ELSE t.v /= <<>>

\* C7: under a filter other than 'ALL' every word of the result comes from
\* an utterance whose speaker is in the filter, exactly those utterances are
\* retained, and with grouping on the result has one group per retained
\* utterance and none for any other; a code passed as a string gives what
\* the one-element list of it gives; 'ALL' retains every utterance.
C7_OnlyFilteredSpeakers ==
  LET codes == Codes(words.call.speaker) IN
  /\ words.call.speaker /= ALL =>
       /\ \A n \in DOMAIN Flatten(words.results) :
            SentOf(Flatten(words.results)[n]).who \in codes
       /\ words.retained = UtterancesOf(codes, words.u)
  /\ words.call.speaker = ALL =>
       words.retained = [n \in 1..(words.u - 1) |-> n]
  /\ words.sent =>
       /\ Len(words.results) = Len(words.retained)
       /\ \A n \in DOMAIN words.results :
            /\ words.results[n].type = "list"
            /\ \A k \in DOMAIN words.results[n].v :
                 words.results[n].v[k].at[1] = words.retained[n]
  /\ (/\ words.pc = "done"
      /\ words.call.speaker.type = "str"
      /\ words.call.speaker /= ALL) =>
       words.results =
         GetWords(words.fn, PyList(<<words.call.speaker.v>>),
                  words.call.sent, words.xmldoc).results

\* A grouped call under a one-code filter given as a string has finished on
\* a transcript where an utterance of another speaker holds a dictionary
\* word and an utterance of the filter's speaker was retained.
C7_Witness ==
  /\ words.pc = "done"
  /\ words.sent
  /\ words.call.speaker = PyStr("CHI")
  /\ words.retained /= <<>>
  /\ \E u \in DOMAIN words.xmldoc :
       /\ words.xmldoc[u].who = "MOT"
       /\ \E k \in DOMAIN words.xmldoc[u].w :
            words.xmldoc[u].w[k] = BallNode
  /\ Len(words.results) < Len(words.xmldoc)

\* The positions <<u, k>> in document order.
Before(a, b) == a[1] < b[1] \/ (a[1] = b[1] /\ a[2] < b[2])

\* C8: a call with default arguments returns the retained words of the file
\* as one flat sequence in document order, not as per-utterance lists.
C8_DefaultCallIsFlat ==
  (/\ words.pc = "done"
   /\ words.call.sent = "default"
   /\ words.call.speaker = ALL) =>
     /\ \A n \in DOMAIN words.results : words.results[n].type /= "list"
     /\ \A m, n \in DOMAIN Flatten(words.results) :
          m < n => Before(Flatten(words.results)[m].at,
                          Flatten(words.results)[n].at)

\* The media times of the sampled <media start="3" end="12"/>, and of an
\* utterance without a <media>.
TimesOf(xmlsent) ==
  IF xmlsent.media = <<>> THEN <<0, 0>> ELSE <<3, 12>>

\* C9: every word of words_info and words_times carries the media times of
\* its own utterance, (0.0, 0.0) when that utterance has no media node; so
\* the words of one utterance carry the same pair and no pair passes on to
\* a word of a later utterance.
C9_OwnUtteranceTimes ==
  words.fn \in {"words_info", "words_times"} =>
    \A n \in DOMAIN Flatten(words.results) :
       Flatten(words.results)[n].media_times
         = TimesOf(SentOf(Flatten(words.results)[n]))

\* A word of an utterance without media follows an utterance with media and
\* carries (0.0, 0.0).
C9_Witness ==
  /\ words.pc = "done"
  /\ words.fn \in {"words_info", "words_times"}
  /\ \E n \in DOMAIN Flatten(words.results) :
       LET e == Flatten(words.results)[n] IN
       /\ e.at[1] = 2
       /\ words.xmldoc[1].media /= <<>>
       /\ words.xmldoc[2].media = <<>>
       /\ e.media_times = <<0, 0>>

\* The lowercased, stripped text of a word node.
OrthographyOf(xmlword) == Lower(Strip(xmlword.text, Whitespace))

\* The positions <<u, k>> of the word elements located in the u-th utterance
\* whose orthography is a key of the dictionary, in document order.
Listed(u) ==
  LET xmlwords == FindWords(words.xmldoc[u], words.speaker) IN
  SelectSeq([k \in DOMAIN xmlwords |-> <<u, k>>],
            LAMBDA a : OrthographyOf(xmlwords[a[2]]) \in DOMAIN cmu)

RECURSIVE ListedIn(_)
ListedIn(us) ==
  IF us = <<>> THEN <<>> ELSE Listed(Head(us)) \o ListedIn(Tail(us))

\* C12: under every method and every speaker filter, ['CHI'] included, each
\* word of the result has a non-empty orthography that is the lowercased,
\* stripped text of its node and a key of the dictionary; the words of the
\* result are exactly the located words of the retained utterances whose
\* orthography the dictionary lists, so a child word the dictionary lacks is
\* dropped; and it is dropped before the stem and the transcription are
\* extracted: as long as no word has been emitted neither parameter has been
\* rebound from the flag the method passed.
C12_EveryWordInDictionary ==
  LET flat == Flatten(words.results) IN
  /\ \A n \in DOMAIN flat :
       /\ flat[n].orthography /= <<>>
       /\ flat[n].orthography = OrthographyOf(NodeOf(flat[n]))
       /\ flat[n].orthography \in DOMAIN cmu
  /\ [n \in DOMAIN flat |-> flat[n].at] = ListedIn(words.retained)
  /\ flat = <<>> =>
       /\ words.stem = PyBool(words.fn = "words_info")
       /\ words.transcription = PyBool(words.fn /= "words_times")

\* A call filtered to ['CHI'] has finished on one child utterance holding
\* "gaga", which the dictionary lacks, and then "Ball ": the result holds the
\* one word "ball", come from the second word element.
C12_Witness ==
  /\ words.pc = "done"
  /\ words.speaker = CHI_ONLY
  /\ Len(words.xmldoc) = 1
  /\ words.xmldoc[1].who = "CHI"
  /\ words.xmldoc[1].w = <<GagaNode, BallNode>>
  /\ Len(Flatten(words.results)) = 1
  /\ Flatten(words.results)[1].at = <<1, 2>>
  /\ Flatten(words.results)[1].orthography = <<"b", "a", "l", "l">>

(***************************************************************************)
(* The specification of _get_child_phones                                  *)
(***************************************************************************)

InitChild ==
  /\ child \in {ChildEnter(s) : s \in SeqsUpTo(RawSymbols, MaxPhones)}
  /\ arpa = ArpaIdle
  /\ wpos = PosIdle
  /\ words = WordsIdle

\* for i, xmlphone in enumerate(xmlphones): one iteration
ChildLoop ==
  /\ child.pc = "loop"
  /\ child.i <= Len(child.xmlphones)
  /\ child' = ChildStep(child)
  /\ UNCHANGED <<arpa, wpos, words>>

\* the loop is exhausted: return phones
ChildReturn ==
  /\ child.pc = "loop"
  /\ child.i > Len(child.xmlphones)
  /\ child' = [child EXCEPT !.pc = "done"]
  /\ UNCHANGED <<arpa, wpos, words>>

NextChild == ChildLoop \/ ChildReturn

SpecChild == InitChild /\ [][NextChild]_vars

(***************************************************************************)
(* Claims about _get_child_phones (checked under SpecChild)                *)
(***************************************************************************)

\* The loop is about to process, at position i, a key of the digraph table.
DigraphKeyStep ==
  /\ child.pc = "loop"
  /\ child.i <= Len(child.xmlphones)
  /\ child.xmlphones[child.i] \in DOMAIN cDigraphs

\* The step put its symbol into the previous unit instead of appending it.
MergedByStep == Len(child'.phones) = Len(child.phones)

\* The raw symbol at position i - 1 ('' before the first).
PrevRaw(s, i) == IF i > 1 THEN s[i - 1] ELSE <<>>

\* The nearest raw symbol before position i that is not a length marker
\* ('' when there is none).
PrevUnskipped(s, i) ==
  LET J == {j \in 1..(i - 1) : s[j] /= LENGTH_MARK} IN
  IF J = {} THEN <<>> ELSE s[CHOOSE j \in J : \A k \in J : k <= j]

\* C2 as stated: a digraph key at position i is merged into the previous
\* output unit if and only if the raw symbol at position i - 1, a skipped
\* length marker included, is one of its left contexts.
C2_MergeIffPrevRawIsContext ==
  [][DigraphKeyStep =>
       (MergedByStep <=>
          PrevRaw(child.xmlphones, child.i)
            \in cDigraphs[child.xmlphones[child.i]])]_vars

\* C2 amended: a digraph key at position i is merged into the previous output
\* unit if and only if the nearest preceding raw symbol that is not a length
\* marker is one of its left contexts: length markers are transparent.
C2_MergeIffPrevUnskippedIsContext ==
  [][DigraphKeyStep =>
       (MergedByStep <=>
          PrevUnskipped(child.xmlphones, child.i)
            \in cDigraphs[child.xmlphones[child.i]])]_vars

\* a, length marker, small capital i: the i is merged across the marker.
C2_Witness ==
  /\ child.pc = "done"
  /\ child.xmlphones = <<(<<"a">>), LENGTH_MARK, (<<"small_cap_i">>)>>
  /\ child.phones = <<(<<"alpha", "small_cap_i">>)>>

HasParen(s) == \E k \in DOMAIN s : s[k] = LPAREN

FirstParen(s) ==
  CHOOSE k \in DOMAIN s : s[k] = LPAREN /\ \A j \in 1..(k - 1) : s[j] /= LPAREN

\* C3 as stated: with '(' first at position k, the output equals the output
\* of the symbols before position k processed alone.
C3_OutputIsThatOfPrefixBeforeMarker ==
  (child.pc = "done" /\ HasParen(child.xmlphones)) =>
     child.phones =
       ChildPhones(SubSeq(child.xmlphones, 1, FirstParen(child.xmlphones) - 1))

\* C3 amended: with '(' first at position k, the output equals the output of
\* the sequence cut after the marker (nothing behind the marker is read), and
\* it equals the output of the symbols before the marker alone unless the
\* symbol just before the marker is l and the nearest symbol before that l
\* that is not a length marker is schwa: there the marker is the l's
\* look-ahead, which is no vowel, and the l is appended and not merged.
C3_OutputIsThatOfPrefixThroughMarker ==
  (child.pc = "done" /\ HasParen(child.xmlphones)) =>
     LET s == child.xmlphones
         k == FirstParen(s)
     IN  /\ child.phones = ChildPhones(SubSeq(s, 1, k))
         /\ ~(/\ k > 1
              /\ s[k - 1] = LATERAL
              /\ PrevUnskipped(s, k - 1) = SCHWA)
              => child.phones = ChildPhones(SubSeq(s, 1, k - 1))

\* schwa, l, '(' gives the two units schwa and l; schwa, l alone gives one.
C3_Witness ==
  /\ child.pc = "done"
  /\ child.xmlphones = <<SCHWA, LATERAL, LPAREN>>
  /\ child.phones = <<SCHWA, LATERAL>>
  /\ ChildPhones(<<SCHWA, LATERAL>>) = <<(<<"l", "syllabic_mark">>)>>

\* C4: after any number of processed symbols no unit of phones is a key of
\* the replacement table, and t, esh returns the single unit tesh.
C4_NoReplacementKeyLeft ==
  /\ \A n \in DOMAIN child.phones : child.phones[n] \notin DOMAIN cReplacement
  /\ (child.pc = "done" /\ child.xmlphones = <<(<<"t">>), (<<"esh">>)>>)
       => child.phones = <<(<<"tesh">>)>>

\* t, esh has been merged through the digraph rule and then replaced.
C4_Witness ==
  /\ child.pc = "done"
  /\ child.xmlphones = <<(<<"t">>), (<<"esh">>)>>
  /\ child.phones = <<(<<"tesh">>)>>

====
